---- MODULE Spec2Model ----
(***************************************************************************)
(* Model of hilbertcurve/hilbertcurve.py: the HilbertCurve class, its      *)
(* transpose packing, the Skilling decode/encode transforms and the batch  *)
(* wrappers (sequential loop and multiprocessing pool).                    *)
(*                                                                         *)
(* Numbers handed in by a caller may be Python ints or floats.  A caller   *)
(* supplied number v is represented by the integer 2*v ("halves"), so that *)
(* 3 stands for 1.5 and 4 for 2 (or 2.0).  Numbers the code has passed     *)
(* through int() are plain integers.  Python ints are unbounded, and so    *)
(* are the integers here.                                                  *)
(***************************************************************************)
EXTENDS Integers, Sequences, FiniteSets, TLC

(***************************************************************************)
(* Bounds of the model.                                                    *)
(***************************************************************************)
\* largest p and n of a curve in the facade specification Spec
MaxP == 2
MaxN == 2
\* largest p and n of a curve in the single-item specification SpecFn, and
\* the most bits p * n of its distances
FnMaxP == 4
FnMaxN == 4
FnMaxBits == 10
\* longest batch handed to points_from_distances / distances_from_points
MaxLen == 2
\* a batch holds the distances 0..MaxItem and max_h, and invalid ones
MaxItem == 3
\* largest explicit n_procs, and largest multiprocessing.cpu_count()
MaxProcs == 2
MaxCpu == 2
\* largest p and n of a curve in the transpose specification SpecTr, and
\* the most bits p * n of its distances
TrMaxP == 5
TrMaxN == 3
TrMaxBits == 15

(***************************************************************************)
(* Python numbers.                                                         *)
(***************************************************************************)
\* the caller's number v, as halves
Num(v) == 2 * v

\* (v % 1) != 0
not_integral(v2) == v2 % 2 # 0

\* int(v): truncation toward zero
int(v2) == IF v2 >= 0 THEN v2 \div 2 ELSE -((-v2) \div 2)

\* 2**e
RECURSIVE pow2(_)
pow2(e) == IF e <= 0 THEN 1 ELSE 2 * pow2(e - 1)

\* a ^ b on Python ints (two's complement of unbounded width)
RECURSIVE xor(_, _)
xor(a, b) ==
    IF a = 0 THEN b
    ELSE IF b = 0 THEN a
    ELSE IF a = -1 THEN -b - 1
    ELSE IF b = -1 THEN -a - 1
    ELSE 2 * xor(a \div 2, b \div 2) + (IF a % 2 = b % 2 THEN 0 ELSE 1)

\* a & b on Python ints
RECURSIVE and(_, _)
and(a, b) ==
    IF a = 0 \/ b = 0 THEN 0
    ELSE IF a = -1 THEN b
    ELSE IF b = -1 THEN a
    ELSE 2 * and(a \div 2, b \div 2) + (a % 2) * (b % 2)

\* a >> 1
shr1(a) == a \div 2

(***************************************************************************)
(* Bit strings: sequences of the characters "0", "1" and "-".              *)
(***************************************************************************)
\* format(num, 'b') for num >= 0: no leading zeros, "0" for 0
RECURSIVE digits(_)
digits(num) ==
    IF num < 2 THEN << (IF num = 1 THEN "1" ELSE "0") >>
    ELSE Append(digits(num \div 2), IF num % 2 = 1 THEN "1" ELSE "0")

\* format(num, 'b')
format_b(num) == IF num < 0 THEN << "-" >> \o digits(-num) ELSE digits(num)

zeros(k) == [i \in 1..k |-> "0"]

\* s.zfill(width): pads after a leading sign, never truncates
zfill(s, width) ==
    IF Len(s) >= width THEN s
    ELSE IF s[1] = "-" THEN << "-" >> \o zeros(width - Len(s)) \o Tail(s)
    ELSE zeros(width - Len(s)) \o s

\* _binary_repr(num, width)
binary_repr(num, width) == zfill(format_b(num), width)

\* value of a string of "0"/"1" characters
RECURSIVE digits_value(_)
digits_value(s) ==
    IF Len(s) = 0 THEN 0
    ELSE 2 * digits_value(SubSeq(s, 1, Len(s) - 1))
         + (IF s[Len(s)] = "1" THEN 1 ELSE 0)

all_digits(s) == Len(s) > 0 /\ \A i \in 1..Len(s) : s[i] \in {"0", "1"}

\* int(s, 2) accepts an optional sign followed by at least one binary digit
parses(s) ==
    /\ Len(s) > 0
    /\ IF s[1] = "-" THEN all_digits(Tail(s)) ELSE all_digits(s)

\* int(s, 2) for a string that parses
int_base2(s) == IF s[1] = "-" THEN -digits_value(Tail(s)) ELSE digits_value(s)

(***************************************************************************)
(* Results of calls: a returned value or a raised exception.               *)
(***************************************************************************)
Returned(v) == [exc |-> "none", val |-> v]
Raised(e) == [exc |-> e, val |-> << >>]

(***************************************************************************)
(* Transpose packing.  Sequences are 1-based: x[i + 1] here is the code's  *)
(* x[i].                                                                   *)
(***************************************************************************)
\* s[i::n] for the 0-based start i
slice(s, i, n) ==
    LET cnt == IF Len(s) <= i THEN 0 ELSE (Len(s) - i + n - 1) \div n
    IN [k \in 1..cnt |-> s[i + 1 + (k - 1) * n]]

\* variant of _hilbert_integer_to_transpose: components filled last to first
hilbert_integer_to_transpose_reversed(p, n, h) ==
    LET h_bit_str == binary_repr(h, p * n)
    IN IF \E i \in 0..(n - 1) : ~parses(slice(h_bit_str, i, n))
       THEN Raised("ValueError")
       ELSE Returned([i \in 1..n |-> int_base2(slice(h_bit_str, n - i, n))])

\* variant of _hilbert_integer_to_transpose: component i is the contiguous
\* chunk h_bit_str[i*p:(i+1)*p]
hilbert_integer_to_transpose_chunks(p, n, h) ==
    LET h_bit_str == binary_repr(h, p * n)
        chunk(i) == [k \in 1..p |-> h_bit_str[i * p + k]]
    IN IF \E i \in 0..(n - 1) : ~parses(chunk(i))
       THEN Raised("ValueError")
       ELSE Returned([i \in 1..n |-> int_base2(chunk(i - 1))])

\* HilbertCurve._hilbert_integer_to_transpose(h)
hilbert_integer_to_transpose(p, n, h) ==
    LET h_bit_str == binary_repr(h, p * n)
    IN IF \E i \in 0..(n - 1) : ~parses(slice(h_bit_str, i, n))
       THEN Raised("ValueError")
       ELSE Returned([i \in 1..n |-> int_base2(slice(h_bit_str, i - 1, n))])

\* variant of the join: ''.join([y[i] for y in x_bit_str for i in range(p)])
interleave_component_major(x_bit_str, p, n) ==
    [k \in 1..(p * n) |-> x_bit_str[((k - 1) \div p) + 1][((k - 1) % p) + 1]]

\* ''.join([y[i] for i in range(p) for y in x_bit_str])
interleave(x_bit_str, p, n) ==
    [k \in 1..(p * n) |-> x_bit_str[((k - 1) % n) + 1][((k - 1) \div n) + 1]]

\* HilbertCurve._transpose_to_hilbert_integer(x); x has at least n components
transpose_to_hilbert_integer(p, n, x) ==
    LET x_bit_str == [i \in 1..n |-> binary_repr(x[i], p)]
        joined == interleave(x_bit_str, p, n)
    IN IF parses(joined) THEN Returned(int_base2(joined))
       ELSE Raised("ValueError")

(***************************************************************************)
(* point_from_distance: distance -> transpose -> point.                    *)
(***************************************************************************)
\* variant of the Gray decode loop: for i in range(1, self.n), ascending
RECURSIVE gray_decode_loop_up(_, _, _)
gray_decode_loop_up(x, i, n) ==
    IF i >= n THEN x
    ELSE gray_decode_loop_up([x EXCEPT ![i + 1] = xor(x[i + 1], x[i])], i + 1, n)

gray_decode_loop_ascending(x, i) == gray_decode_loop_up(x, 1, i + 1)

\* for i in range(self.n-1, 0, -1): x[i] ^= x[i-1]
RECURSIVE gray_decode_loop(_, _)
gray_decode_loop(x, i) ==
    IF i < 1 THEN x
    ELSE gray_decode_loop([x EXCEPT ![i + 1] = xor(x[i + 1], x[i])], i - 1)

\* variant of the Gray decode: t = x[self.n-1] << 1
gray_decode_shift_left(x, n) ==
    LET t == 2 * x[n]
        y == gray_decode_loop(x, n - 1)
    IN [y EXCEPT ![1] = xor(y[1], t)]

\* variant of the Gray decode: x[0] ^= t is left out
gray_decode_without_t(x, n) == gray_decode_loop(x, n - 1)

\* Gray decode by H ^ (H/2)
gray_decode(x, n) ==
    LET t == shr1(x[n])
        y == gray_decode_loop(x, n - 1)
    IN [y EXCEPT ![1] = xor(y[1], t)]

\* one pass of the body shared by both correction loops, at component i
\* (0-based): invert x[0] if bit q of x[i] is set, else exchange low bits
invert_or_exchange(x, i, q) ==
    LET pm == q - 1
    IN IF and(x[i + 1], q) # 0
       THEN [x EXCEPT ![1] = xor(x[1], pm)]
       ELSE LET t == and(xor(x[1], x[i + 1]), pm)
                y == [x EXCEPT ![1] = xor(x[1], t)]
            IN [y EXCEPT ![i + 1] = xor(y[i + 1], t)]

\* variant of the inner loop: for i in range(self.n), ascending
RECURSIVE undo_inner_up(_, _, _, _)
undo_inner_up(x, i, q, n) ==
    IF i >= n THEN x ELSE undo_inner_up(invert_or_exchange(x, i, q), i + 1, q, n)

undo_inner_ascending(x, i, q) == undo_inner_up(x, 0, q, i + 1)

\* for i in range(self.n-1, -1, -1): ...
RECURSIVE undo_inner(_, _, _)
undo_inner(x, i, q) ==
    IF i < 0 THEN x ELSE undo_inner(invert_or_exchange(x, i, q), i - 1, q)

\* q = 2; while q != z: ...; q <<= 1      (returns x and the passes made)
RECURSIVE undo_excess_work(_, _, _, _, _)
undo_excess_work(x, q, z, n, iters) ==
    IF q = z THEN [x |-> x, iters |-> iters]
    ELSE undo_excess_work(undo_inner(x, n - 1, q), 2 * q, z, n, iters + 1)

\* variant of the decode transform: z = 2 << self.p
decode_one_more_pass(p, n, x) ==
    LET z == 2 * pow2(p)
    IN undo_excess_work(gray_decode(x, n), 2, z, n, 0)

\* the decode transform applied to a transpose x
decode(p, n, x) ==
    LET z == 2 * pow2(p - 1)
    IN undo_excess_work(gray_decode(x, n), 2, z, n, 0)

\* HilbertCurve.point_from_distance(distance)
point_from_distance(p, n, distance) ==
    LET tr == hilbert_integer_to_transpose(p, n, int(distance))
    IN IF tr.exc # "none" THEN tr ELSE Returned(decode(p, n, tr.val).x)

(***************************************************************************)
(* distance_from_point: point -> transpose -> distance.                    *)
(***************************************************************************)
\* for i in range(self.n): ...
RECURSIVE inverse_undo_inner(_, _, _, _)
inverse_undo_inner(x, i, q, n) ==
    IF i >= n THEN x
    ELSE inverse_undo_inner(invert_or_exchange(x, i, q), i + 1, q, n)

\* q = m; while q > 1: ...; q >>= 1       (returns x and the passes made)
RECURSIVE inverse_undo_excess_work(_, _, _, _)
inverse_undo_excess_work(x, q, n, iters) ==
    IF q <= 1 THEN [x |-> x, iters |-> iters]
    ELSE inverse_undo_excess_work(inverse_undo_inner(x, 0, q, n),
                                  shr1(q), n, iters + 1)

\* for i in range(1, self.n): point[i] ^= point[i-1]
RECURSIVE gray_encode_loop(_, _, _)
gray_encode_loop(x, i, n) ==
    IF i >= n THEN x
    ELSE gray_encode_loop([x EXCEPT ![i + 1] = xor(x[i + 1], x[i])], i + 1, n)

\* t = 0; q = m; while q > 1: if point[n-1] & q: t ^= q - 1; q >>= 1
RECURSIVE gray_encode_t(_, _, _, _)
gray_encode_t(last, q, t, iters) ==
    IF q <= 1 THEN [t |-> t, iters |-> iters]
    ELSE gray_encode_t(last, shr1(q),
                       IF and(last, q) # 0 THEN xor(t, q - 1) ELSE t,
                       iters + 1)

\* Gray encode
gray_encode(x, m, n) ==
    LET y == gray_encode_loop(x, 1, n)
        t == gray_encode_t(y[n], m, 0, 0).t
    IN [i \in 1..Len(y) |-> IF i <= n THEN xor(y[i], t) ELSE y[i]]

\* the encode transform applied to a point x of at least n integers
encode(p, n, x) ==
    LET m == pow2(p - 1)
        u == inverse_undo_excess_work(x, m, n, 0)
    IN [x |-> gray_encode(u.x, m, n), iters |-> u.iters]

\* variant of the copy: for i, el in enumerate(point): point[i] = int(el),
\* which converts the caller's list in place and leaves `point` bound to it
copy_point_in_place(frame) ==
    [frame EXCEPT !.arg = [i \in 1..Len(frame.arg) |-> int(frame.arg[i])]]

\* point = [int(el) for el in point]: a new list, bound to the local name
copy_point(frame) ==
    [frame EXCEPT !.local = [i \in 1..Len(frame.arg) |-> int(frame.arg[i])],
                  !.ref = "local"]

\* HilbertCurve.distance_from_point(point).  The frame holds the caller's
\* list object (arg), the list made inside the call (local) and which of
\* them the name `point` is bound to; the in-place updates of lines 216-238
\* land in that object.  val is the returned distance, arg the caller's
\* list after the call.
distance_from_point(p, n, point) ==
    LET frame == copy_point([arg |-> point, local |-> << >>, ref |-> "arg"])
        work == frame[frame.ref]
    IN IF Len(work) < n
       THEN [exc |-> "IndexError", val |-> << >>, arg |-> frame.arg]
       ELSE LET x == encode(p, n, work).x
                d == transpose_to_hilbert_integer(p, n, x)
                stored == [frame EXCEPT ![frame.ref] = x]
            IN [exc |-> d.exc, val |-> d.val, arg |-> stored.arg]

(***************************************************************************)
(* State.  The fields of the one HilbertCurve instance the caller holds,   *)
(* and the call in progress on it.                                         *)
(***************************************************************************)
VARIABLES
    p, n,              \* self.p, self.n
    min_h, max_h,      \* self.min_h, self.max_h
    min_x, max_x,      \* self.min_x, self.max_x
    n_procs,           \* self.n_procs
    pc,                \* "new", "no_instance", "idle", "validate", "loop",
                       \* "pool", "returned" or "raised"
    op,                \* the method being called
    arg,               \* the caller's argument object (numbers as halves)
    arg_in,            \* the value arg held when the call was made
    ii,                \* items passed by the running for loop
    out,               \* the list `points` / `distances` under construction,
                       \* or the (index, value) results the pool has got back
    tasks,             \* pool: indices not yet handed to a worker
    busy,              \* pool: the index each worker is computing (0: idle)
    ret,               \* what the call returned or raised
    err                \* which check raised, on which item

vars == << p, n, min_h, max_h, min_x, max_x, n_procs,
           pc, op, arg, arg_in, ii, out, tasks, busy, ret, err >>

fields == << p, n, min_h, max_h, min_x, max_x, n_procs >>
pool == << tasks, busy >>

NoRet == [exc |-> "none", val |-> << >>]
NoErr == [check |-> "none", index |-> -1, value |-> << >>]
\* variant of the message: the index is counted from one
Failed_index_from_one(check, index, value) ==
    [check |-> check, index |-> index + 1, value |-> value]

\* what the message of a raised check names: the check, ii and the item
Failed(check, index, value) == [check |-> check, index |-> index, value |-> value]

Init ==
    /\ p = 0 /\ n = 0
    /\ min_h = 0 /\ max_h = 0
    /\ min_x = 0 /\ max_x = 0
    /\ n_procs = 0
    /\ pc = "new"
    /\ op = "none"
    /\ arg = << >> /\ arg_in = << >>
    /\ ii = 0
    /\ out = << >>
    /\ tasks = << >> /\ busy = << >>
    /\ ret = NoRet
    /\ err = NoErr

(***************************************************************************)
(* Inputs a caller may hand in, as halves.                                 *)
(***************************************************************************)
\* p or n of a constructor call: -1, -0.5, 0, 0.5, 1, ... hi, hi + 0.5
CtorNums(hi) == (-2)..(2 * hi + 1)
\* n_procs of a constructor call: -2, -1.5, -1, ... MaxProcs, MaxProcs + 0.5
ProcNums == (-4)..(2 * MaxProcs + 1)

\* a distance for point_from_distance: -2, -1.5, ... max_h + 2, max_h + 2.5
DistanceInputs == (-4)..(2 * max_h + 5)
ValidDistances == {Num(h) : h \in 0..max_h}
\* -1, -0.5, 0.5, max_h + 0.5, max_h + 1, max_h + 1.5
BadDistances == {-2, -1, 1, 2 * max_h + 1, 2 * max_h + 2, 2 * max_h + 3}
\* the items of a batch of distances
BatchDistances ==
    {d \in ValidDistances : d <= Num(MaxItem) \/ d = Num(max_h)} \cup BadDistances

ValidPoints == [1..n -> {Num(v) : v \in 0..max_x}]
MaxPoint == [i \in 1..n |-> Num(max_x)]
\* points that are too short, too long, too long with a component max_x + 1,
\* and points of n components with one of them max_x + 1, -1, 0.5 or
\* max_x + 1.5, or with the first -1 and the last max_x + 1
BadPoints ==
    {SubSeq(MaxPoint, 1, n - 1),
     Append(MaxPoint, 0),
     Append(MaxPoint, 2 * max_x + 2),
     [MaxPoint EXCEPT ![n] = 2 * max_x + 2],
     [MaxPoint EXCEPT ![1] = -2],
     [MaxPoint EXCEPT ![1] = 1],
     [MaxPoint EXCEPT ![n] = 2 * max_x + 3],
     [MaxPoint EXCEPT ![1] = -2, ![n] = 2 * max_x + 2]}
\* a point for distance_from_point
PointInputs == ValidPoints \cup BadPoints
\* the items of a batch of points: the corners of the hypercube, and invalid
\* points
BatchPoints == [1..n -> {0, Num(max_x)}] \cup BadPoints

\* all lists of at most MaxLen items of S
Lists(S) == UNION {[1..k -> S] : k \in 0..MaxLen}

(***************************************************************************)
(* HilbertCurve.__init__(p, n, n_procs)                                    *)
(***************************************************************************)
\* variant of the checks of __init__: self.p < 0 and self.n < 0
init_check_not_negative(p_in, n_in, procs_in) ==
    IF not_integral(p_in) THEN [exc |-> "TypeError", check |-> "p_integral"]
    ELSE IF not_integral(n_in) THEN [exc |-> "TypeError", check |-> "n_integral"]
    ELSE IF not_integral(procs_in)
         THEN [exc |-> "TypeError", check |-> "n_procs_integral"]
    ELSE IF int(p_in) < 0 THEN [exc |-> "ValueError", check |-> "p_positive"]
    ELSE IF int(n_in) < 0 THEN [exc |-> "ValueError", check |-> "n_positive"]
    ELSE IF int(procs_in) < -1 THEN [exc |-> "ValueError", check |-> "n_procs_range"]
    ELSE [exc |-> "none", check |-> "none"]

\* variant of the checks of __init__: the last branch taken for n_procs < -2
init_check_below_minus_two(p_in, n_in, procs_in) ==
    IF not_integral(p_in) THEN [exc |-> "TypeError", check |-> "p_integral"]
    ELSE IF not_integral(n_in) THEN [exc |-> "TypeError", check |-> "n_integral"]
    ELSE IF not_integral(procs_in)
         THEN [exc |-> "TypeError", check |-> "n_procs_integral"]
    ELSE IF int(p_in) <= 0 THEN [exc |-> "ValueError", check |-> "p_positive"]
    ELSE IF int(n_in) <= 0 THEN [exc |-> "ValueError", check |-> "n_positive"]
    ELSE IF int(procs_in) < -2 THEN [exc |-> "ValueError", check |-> "n_procs_range"]
    ELSE [exc |-> "none", check |-> "none"]

\* the checks of __init__ in the order the code makes them
init_check(p_in, n_in, procs_in) ==
    IF not_integral(p_in) THEN [exc |-> "TypeError", check |-> "p_integral"]
    ELSE IF not_integral(n_in) THEN [exc |-> "TypeError", check |-> "n_integral"]
    ELSE IF not_integral(procs_in)
         THEN [exc |-> "TypeError", check |-> "n_procs_integral"]
    ELSE IF int(p_in) <= 0 THEN [exc |-> "ValueError", check |-> "p_positive"]
    ELSE IF int(n_in) <= 0 THEN [exc |-> "ValueError", check |-> "n_positive"]
    ELSE IF int(procs_in) < -1 THEN [exc |-> "ValueError", check |-> "n_procs_range"]
    ELSE [exc |-> "none", check |-> "none"]

\* the caller draws (p, n) from pns and n_procs from procs; cpu is what
\* multiprocessing.cpu_count() answers
Construct(pns, procs, cpus) ==
    /\ pc = "new"
    /\ \E pn \in pns, procs_in \in procs, cpu \in cpus :
         LET p_in == pn[1]
             n_in == pn[2]
         IN
           /\ LET c == init_check(p_in, n_in, procs_in)
              IN IF c.exc # "none"
                 THEN /\ pc' = "no_instance"
                      /\ ret' = Raised(c.exc)
                      /\ err' = Failed(c.check, -1, << p_in, n_in, procs_in >>)
                      /\ UNCHANGED fields
                 ELSE /\ pc' = "idle"
                      /\ p' = int(p_in)
                      /\ n' = int(n_in)
                      /\ min_h' = 0
                      /\ max_h' = pow2(int(p_in) * int(n_in)) - 1
                      /\ min_x' = 0
                      /\ max_x' = pow2(int(p_in)) - 1
                      /\ n_procs' = IF int(procs_in) = -1 THEN cpu ELSE int(procs_in)
                      /\ UNCHANGED << ret, err >>
           /\ op' = "__init__"
           /\ arg' = << p_in, n_in, procs_in >>
           /\ arg_in' = << p_in, n_in, procs_in >>
           /\ UNCHANGED << ii, out, pool >>

(***************************************************************************)
(* Single-item calls.                                                      *)
(***************************************************************************)
CallPointFromDistance ==
    /\ pc = "idle"
    /\ \E distance \in DistanceInputs :
           /\ LET r == point_from_distance(p, n, distance)
              IN /\ ret' = [exc |-> r.exc, val |-> r.val]
                 /\ pc' = IF r.exc = "none" THEN "returned" ELSE "raised"
           /\ op' = "point_from_distance"
           /\ arg' = distance
           /\ arg_in' = distance
           /\ UNCHANGED << fields, ii, out, pool, err >>

\* variant of distance_from_point that keeps m = 1 << (self.p - 1) in
\* self.max_x instead of a local
CallDistanceFromPoint_stores_m ==
    /\ pc = "idle"
    /\ \E point \in PointInputs :
           /\ LET r == distance_from_point(p, n, point)
              IN /\ ret' = [exc |-> r.exc, val |-> r.val]
                 /\ pc' = IF r.exc = "none" THEN "returned" ELSE "raised"
                 /\ arg' = r.arg
           /\ op' = "distance_from_point"
           /\ arg_in' = point
           /\ max_x' = pow2(p - 1)
           /\ UNCHANGED << p, n, min_h, max_h, min_x, n_procs, ii, out, pool, err >>

CallDistanceFromPoint ==
    /\ pc = "idle"
    /\ \E point \in PointInputs :
           /\ LET r == distance_from_point(p, n, point)
              IN /\ ret' = [exc |-> r.exc, val |-> r.val]
                 /\ pc' = IF r.exc = "none" THEN "returned" ELSE "raised"
                 /\ arg' = r.arg
           /\ op' = "distance_from_point"
           /\ arg_in' = point
           /\ UNCHANGED << fields, ii, out, pool, err >>

\* the caller is done with the result and drops the call's objects
Finish ==
    /\ pc \in {"returned", "raised"}
    /\ pc' = "idle"
    /\ op' = "none"
    /\ arg' = << >> /\ arg_in' = << >>
    /\ ii' = 0
    /\ out' = << >>
    /\ tasks' = << >> /\ busy' = << >>
    /\ ret' = NoRet
    /\ err' = NoErr
    /\ UNCHANGED fields

(***************************************************************************)
(* Batch calls: points_from_distances(distances) and                       *)
(* distances_from_points(points), with match_type=False.                   *)
(***************************************************************************)
\* variant of the distance checks: dist >= self.max_h
check_distance_strict_upper(dist, mn_h, mx_h) ==
    IF not_integral(dist) THEN [exc |-> "TypeError", check |-> "integral"]
    ELSE IF dist >= Num(mx_h) THEN [exc |-> "ValueError", check |-> "upper"]
    ELSE IF dist < Num(mn_h) THEN [exc |-> "ValueError", check |-> "lower"]
    ELSE [exc |-> "none", check |-> "none"]

\* the checks made on distances[ii], in the order the code makes them
check_distance(dist, mn_h, mx_h) ==
    IF not_integral(dist) THEN [exc |-> "TypeError", check |-> "integral"]
    ELSE IF dist > Num(mx_h) THEN [exc |-> "ValueError", check |-> "upper"]
    ELSE IF dist < Num(mn_h) THEN [exc |-> "ValueError", check |-> "lower"]
    ELSE [exc |-> "none", check |-> "none"]

\* variant of the point checks: elx <= self.min_x
check_point_strict_lower(point, dim, mn_x, mx_x) ==
    IF Len(point) # dim THEN [exc |-> "ValueError", check |-> "length"]
    ELSE IF \E k \in 1..Len(point) : point[k] > Num(mx_x)
         THEN [exc |-> "ValueError", check |-> "upper"]
    ELSE IF \E k \in 1..Len(point) : point[k] <= Num(mn_x)
         THEN [exc |-> "ValueError", check |-> "lower"]
    ELSE IF \E k \in 1..Len(point) : not_integral(point[k])
         THEN [exc |-> "TypeError", check |-> "integral"]
    ELSE [exc |-> "none", check |-> "none"]

\* variant of the point checks: integrality is checked before the bounds
check_point_integral_first(point, dim, mn_x, mx_x) ==
    IF Len(point) # dim THEN [exc |-> "ValueError", check |-> "length"]
    ELSE IF \E k \in 1..Len(point) : not_integral(point[k])
         THEN [exc |-> "TypeError", check |-> "integral"]
    ELSE IF \E k \in 1..Len(point) : point[k] > Num(mx_x)
         THEN [exc |-> "ValueError", check |-> "upper"]
    ELSE IF \E k \in 1..Len(point) : point[k] < Num(mn_x)
         THEN [exc |-> "ValueError", check |-> "lower"]
    ELSE [exc |-> "none", check |-> "none"]

\* the checks made on points[ii], in the order the code makes them
check_point(point, dim, mn_x, mx_x) ==
    IF Len(point) # dim THEN [exc |-> "ValueError", check |-> "length"]
    ELSE IF \E k \in 1..Len(point) : point[k] > Num(mx_x)
         THEN [exc |-> "ValueError", check |-> "upper"]
    ELSE IF \E k \in 1..Len(point) : point[k] < Num(mn_x)
         THEN [exc |-> "ValueError", check |-> "lower"]
    ELSE IF \E k \in 1..Len(point) : not_integral(point[k])
         THEN [exc |-> "TypeError", check |-> "integral"]
    ELSE [exc |-> "none", check |-> "none"]

\* variant of the validating loop: it stops after its first item
validation_done_after_first(i, items) == i >= 1 \/ i >= Len(items)

\* the validating for loop has passed every item
validation_done(i, items) == i >= Len(items)

\* variant of the append: points.insert(0, x)
list_insert_front(acc, x) == << x >> \o acc

\* points.append(x) / distances.append(distance)
list_append(acc, x) == Append(acc, x)

\* the single-item method a batch method applies
transform(o, cp, cn, item) ==
    IF o = "points_from_distances"
    THEN LET r == point_from_distance(cp, cn, item)
         IN [exc |-> r.exc, val |-> r.val, arg |-> item]
    ELSE distance_from_point(cp, cn, item)

\* the sequential branch as a whole: for item in items: acc.append(f(item))
RECURSIVE sequential(_, _, _, _, _, _)
sequential(o, cp, cn, items, i, acc) ==
    IF i >= Len(items) THEN acc
    ELSE sequential(o, cp, cn, items, i + 1,
                    list_append(acc, transform(o, cp, cn, items[i + 1]).val))

\* variant of the pool call: list(p.imap_unordered(...)), the results in the
\* order the workers finished in
pool_imap_unordered_result(got, len) == [i \in 1..len |-> got[i].val]

\* Pool.map hands back the results in the order of the inputs, whatever
\* the order the workers finished in
pool_map_result(got, len) ==
    [i \in 1..len |-> (CHOOSE r \in {got[k] : k \in 1..Len(got)} : r.idx = i).val]

CallPointsFromDistances ==
    /\ pc = "idle"
    /\ \E distances \in Lists(BatchDistances) :
           /\ pc' = "validate"
           /\ op' = "points_from_distances"
           /\ arg' = distances
           /\ arg_in' = distances
           /\ ii' = 0
           /\ UNCHANGED << fields, out, pool, ret, err >>

CallDistancesFromPoints ==
    /\ pc = "idle"
    /\ \E points \in Lists(BatchPoints) :
           /\ pc' = "validate"
           /\ op' = "distances_from_points"
           /\ arg' = points
           /\ arg_in' = points
           /\ ii' = 0
           /\ UNCHANGED << fields, out, pool, ret, err >>

\* one pass of `for ii, dist in enumerate(distances)`
ValidateDistance ==
    /\ pc = "validate"
    /\ op = "points_from_distances"
    /\ ~validation_done(ii, arg)
    /\ LET c == check_distance(arg[ii + 1], min_h, max_h)
       IN IF c.exc # "none"
          THEN /\ pc' = "raised"
               /\ ret' = Raised(c.exc)
               /\ err' = Failed(c.check, ii, arg[ii + 1])
               /\ UNCHANGED ii
          ELSE /\ ii' = ii + 1
               /\ UNCHANGED << pc, ret, err >>
    /\ UNCHANGED << fields, op, arg, arg_in, out, pool >>

\* one pass of `for ii, point in enumerate(points)`
ValidatePoint ==
    /\ pc = "validate"
    /\ op = "distances_from_points"
    /\ ~validation_done(ii, arg)
    /\ LET c == check_point(arg[ii + 1], n, min_x, max_x)
       IN IF c.exc # "none"
          THEN /\ pc' = "raised"
               /\ ret' = Raised(c.exc)
               /\ err' = Failed(c.check, ii, arg[ii + 1])
               /\ UNCHANGED ii
          ELSE /\ ii' = ii + 1
               /\ UNCHANGED << pc, ret, err >>
    /\ UNCHANGED << fields, op, arg, arg_in, out, pool >>

\* if self.n_procs == 0: points = []
StartLoop ==
    /\ pc = "validate"
    /\ validation_done(ii, arg)
    /\ n_procs = 0
    /\ pc' = "loop"
    /\ ii' = 0
    /\ out' = << >>
    /\ UNCHANGED << fields, op, arg, arg_in, pool, ret, err >>

\* one pass of the sequential for loop.  The single-item method is handed
\* the caller's own item object, and arg[ii + 1] is that object afterwards.
LoopStep ==
    /\ pc = "loop"
    /\ ii < Len(arg)
    /\ LET r == transform(op, p, n, arg[ii + 1])
       IN IF r.exc # "none"
          THEN /\ pc' = "raised"
               /\ ret' = Raised(r.exc)
               /\ UNCHANGED << ii, out >>
          ELSE /\ out' = list_append(out, r.val)
               /\ ii' = ii + 1
               /\ UNCHANGED << pc, ret >>
    /\ arg' = [arg EXCEPT ![ii + 1] = transform(op, p, n, arg[ii + 1]).arg]
    /\ UNCHANGED << fields, op, arg_in, pool, err >>

\* return points
LoopReturn ==
    /\ pc = "loop"
    /\ ii >= Len(arg)
    /\ pc' = "returned"
    /\ ret' = Returned(out)
    /\ UNCHANGED << fields, op, arg, arg_in, ii, out, pool, err >>

\* else: with Pool(self.n_procs) as p: p.map(...)
StartPool ==
    /\ pc = "validate"
    /\ validation_done(ii, arg)
    /\ n_procs # 0
    /\ pc' = "pool"
    /\ tasks' = [i \in 1..Len(arg) |-> i]
    /\ busy' = [w \in 1..n_procs |-> 0]
    /\ out' = << >>
    /\ UNCHANGED << fields, op, arg, arg_in, ii, ret, err >>

\* an idle worker process takes the next task off the queue
WorkerTake ==
    /\ pc = "pool"
    /\ \E w \in 1..n_procs :
           /\ busy[w] = 0
           /\ tasks # << >>
           /\ busy' = [busy EXCEPT ![w] = Head(tasks)]
           /\ tasks' = Tail(tasks)
           /\ UNCHANGED << fields, pc, op, arg, arg_in, ii, out, ret, err >>

\* a worker process applies the method to its pickled copy of the item and
\* sends the result back
WorkerFinish ==
    /\ pc = "pool"
    /\ \E w \in 1..n_procs :
           /\ busy[w] # 0
           /\ LET r == transform(op, p, n, arg[busy[w]])
              IN IF r.exc # "none"
                 THEN /\ pc' = "raised"
                      /\ ret' = Raised(r.exc)
                      /\ UNCHANGED out
                 ELSE /\ out' = Append(out, [idx |-> busy[w], val |-> r.val])
                      /\ UNCHANGED << pc, ret >>
           /\ busy' = [busy EXCEPT ![w] = 0]
           /\ UNCHANGED << fields, op, arg, arg_in, ii, tasks, err >>

\* every result is back: map returns
PoolReturn ==
    /\ pc = "pool"
    /\ Len(out) = Len(arg)
    /\ pc' = "returned"
    /\ ret' = Returned(pool_map_result(out, Len(arg)))
    /\ UNCHANGED << fields, op, arg, arg_in, ii, out, pool, err >>

(***************************************************************************)
(* Spec: the whole facade, on curves of at most MaxP iterations and MaxN   *)
(* dimensions.                                                             *)
(***************************************************************************)
Next ==
    \/ Construct(CtorNums(MaxP) \X CtorNums(MaxN), ProcNums, 1..MaxCpu)
    \/ CallPointFromDistance
    \/ CallDistanceFromPoint
    \/ CallPointsFromDistances
    \/ CallDistancesFromPoints
    \/ ValidateDistance
    \/ ValidatePoint
    \/ StartLoop
    \/ LoopStep
    \/ LoopReturn
    \/ StartPool
    \/ WorkerTake
    \/ WorkerFinish
    \/ PoolReturn
    \/ Finish

Spec == Init /\ [][Next]_vars

(***************************************************************************)
(* SpecFn: the single-item methods alone, on curves of at most FnMaxP      *)
(* iterations and FnMaxN dimensions with distances of at most FnMaxBits    *)
(* bits, over every distance and every point.                              *)
(***************************************************************************)
NextFn ==
    \/ Construct({pn \in CtorNums(FnMaxP) \X CtorNums(FnMaxN) :
                      int(pn[1]) * int(pn[2]) <= FnMaxBits}, {0}, {1})
    \/ CallPointFromDistance
    \/ CallDistanceFromPoint
    \/ Finish

SpecFn == Init /\ [][NextFn]_vars

(***************************************************************************)
(* The transpose methods called on their own, as the tests call them, on   *)
(* curves of up to TrMaxBits bits.  Their argument is a Python int.        *)
(***************************************************************************)
\* the h a caller hands to _hilbert_integer_to_transpose
TransposeDistances == (-1)..(max_h + 1)

\* the x a caller hands to _transpose_to_hilbert_integer
TransposeInputs ==
    [1..n -> 0..max_x] \cup {[i \in 1..n |-> IF i = n THEN max_x + 1 ELSE 0],
                             [i \in 1..n |-> IF i = 1 THEN -1 ELSE max_x]}

CallHilbertIntegerToTranspose ==
    /\ pc = "idle"
    /\ \E h \in TransposeDistances :
           /\ LET r == hilbert_integer_to_transpose(p, n, h)
              IN /\ ret' = r
                 /\ pc' = IF r.exc = "none" THEN "returned" ELSE "raised"
           /\ op' = "_hilbert_integer_to_transpose"
           /\ arg' = h
           /\ arg_in' = h
           /\ UNCHANGED << fields, ii, out, pool, err >>

CallTransposeToHilbertInteger ==
    /\ pc = "idle"
    /\ \E x \in TransposeInputs :
           /\ LET r == transpose_to_hilbert_integer(p, n, x)
              IN /\ ret' = r
                 /\ pc' = IF r.exc = "none" THEN "returned" ELSE "raised"
           /\ op' = "_transpose_to_hilbert_integer"
           /\ arg' = x
           /\ arg_in' = x
           /\ UNCHANGED << fields, ii, out, pool, err >>

NextTr ==
    \/ Construct({pn \in CtorNums(TrMaxP) \X CtorNums(TrMaxN) :
                     int(pn[1]) * int(pn[2]) <= TrMaxBits}, {0}, {1})
    \/ CallHilbertIntegerToTranspose
    \/ CallTransposeToHilbertInteger
    \/ Finish

SpecTr == Init /\ [][NextTr]_vars

(***************************************************************************)
(* Properties.                                                             *)
(***************************************************************************)
\* an integer in [0, 2^(p*n) - 1], as the caller hands it in
IsDistance(h) == ~not_integral(h) /\ 0 <= h /\ h <= Num(pow2(p * n) - 1)

\* n integers, each in [0, 2^p - 1], as the caller hands them in
IsPoint(x) ==
    /\ Len(x) = n
    /\ \A i \in 1..Len(x) : ~not_integral(x[i]) /\ 0 <= x[i] /\ x[i] <= Num(pow2(p) - 1)

\* a list of ints as a caller would hand it in, and back
AsInput(x) == [i \in 1..Len(x) |-> Num(x[i])]
AsInts(x) == [i \in 1..Len(x) |-> int(x[i])]

ReturnedFrom(o) == pc = "returned" /\ op = o

\* C1: point_from_distance and distance_from_point are mutual inverses: for
\* every distance h in [0, 2^(p*n)-1] the distance of the point of h is h,
\* and for every point x in {0..2^p-1}^n the point of the distance of x is
\* x; neither call raises on such an input.
C1_RoundTrip ==
    /\ (op = "point_from_distance" /\ IsDistance(arg_in)) =>
          /\ pc = "returned"
          /\ LET back == distance_from_point(p, n, AsInput(ret.val))
             IN back.exc = "none" /\ back.val = int(arg_in)
    /\ (op = "distance_from_point" /\ IsPoint(arg_in)) =>
          /\ pc = "returned"
          /\ LET back == point_from_distance(p, n, Num(ret.val))
             IN back.exc = "none" /\ back.val = AsInts(arg_in)

C1_Witness ==
    /\ ReturnedFrom("distance_from_point")
    /\ p = 3 /\ n = 3
    /\ arg_in = << Num(5), Num(2), Num(7) >>
    /\ point_from_distance(p, n, Num(ret.val)).val = << 5, 2, 7 >>

\* the table of examples.py for p = 1, n = 2
ExamplePoint(h) ==
    CASE h = 0 -> << 0, 0 >>
      [] h = 1 -> << 0, 1 >>
      [] h = 2 -> << 1, 1 >>
      [] h = 3 -> << 1, 0 >>

\* C2: on the curve p = 1, n = 2, points_from_distances maps the distances
\* 0, 1, 2, 3 to [0,0], [0,1], [1,1], [1,0] and distances_from_points maps
\* those points back to 0, 1, 2, 3, item by item.
C2_Example ==
    (pc = "returned" /\ p = 1 /\ n = 2) =>
       /\ op = "points_from_distances" =>
             /\ Len(ret.val) = Len(arg_in)
             /\ \A i \in 1..Len(arg_in) :
                   ret.val[i] = ExamplePoint(int(arg_in[i]))
       /\ op = "distances_from_points" =>
             /\ Len(ret.val) = Len(arg_in)
             /\ \A i \in 1..Len(arg_in) :
                   /\ ret.val[i] \in 0..3
                   /\ ExamplePoint(ret.val[i]) = AsInts(arg_in[i])

C2_Witness ==
    /\ ReturnedFrom("points_from_distances")
    /\ p = 1 /\ n = 2
    /\ arg_in = << Num(2), Num(3) >>
    /\ ret.val = << << 1, 1 >>, << 1, 0 >> >>

\* C3: for every valid distance, point_from_distance returns exactly n
\* components, each in [0, 2^p - 1]; for every valid point,
\* distance_from_point returns an integer in [0, 2^(p*n) - 1].
C3_Ranges ==
    /\ (op = "point_from_distance" /\ IsDistance(arg_in)) =>
          /\ pc = "returned"
          /\ Len(ret.val) = n
          /\ \A i \in 1..Len(ret.val) : ret.val[i] \in 0..(pow2(p) - 1)
    /\ (op = "distance_from_point" /\ IsPoint(arg_in)) =>
          /\ pc = "returned"
          /\ ret.val \in 0..(pow2(p * n) - 1)

C3_Witness ==
    /\ ReturnedFrom("point_from_distance")
    /\ p = 2 /\ n = 3
    /\ arg_in = Num(pow2(p * n) - 1)
    /\ ret.val = << 3, 0, 0 >>

IsBatch == op \in {"points_from_distances", "distances_from_points"}

\* the item is a valid input of the single-item method the batch applies
ItemValid(item) ==
    IF op = "points_from_distances" THEN IsDistance(item) ELSE IsPoint(item)

\* the result of the single-item method on one item of a batch
Single(item) ==
    IF op = "points_from_distances" THEN point_from_distance(p, n, item).val
    ELSE distance_from_point(p, n, item).val

\* C4: a batch call returns one output per input, in input order, each
\* equal to what the single-item method returns for that input.
C4_BatchSingle ==
    (pc = "returned" /\ IsBatch) =>
       /\ Len(ret.val) = Len(arg_in)
       /\ \A i \in 1..Len(arg_in) : ret.val[i] = Single(arg_in[i])

C4_Witness ==
    /\ ReturnedFrom("points_from_distances")
    /\ n_procs = 0
    /\ Len(arg_in) = 2
    /\ ret.val[1] # ret.val[2]
    /\ ret.val[2] = Single(arg_in[2])

\* C5: with one or more workers, whatever the order in which the workers
\* take and finish items, a batch call returns the sequence the sequential
\* branch computes on the same input.
C5_ParallelSequential ==
    (pc = "returned" /\ IsBatch /\ n_procs >= 1) =>
       ret.val = sequential(op, p, n, arg_in, 0, << >>)

\* two workers finished out of order, on items with different results
C5_Witness ==
    /\ pc = "returned" /\ IsBatch
    /\ n_procs = 2
    /\ Len(out) = 2
    /\ out[1].idx = 2
    /\ out[1].val # out[2].val
    /\ ret.val = << out[2].val, out[1].val >>

\* C6: after distances_from_points or distance_from_point returns, the
\* caller's list and every point in it hold the values they held before.
C6_Unmodified ==
    (pc = "returned" /\ op \in {"distances_from_points", "distance_from_point"}) =>
       arg = arg_in

\* a sequential batch whose in-place work changes the working copy
C6_Witness ==
    /\ ReturnedFrom("distances_from_points")
    /\ n_procs = 0
    /\ Len(arg_in) = 2
    /\ \A i \in 1..2 : encode(p, n, AsInts(arg_in[i])).x # AsInts(arg_in[i])
    /\ arg = arg_in

\* some single-item transform of the batch call has been started
Transformed ==
    \/ pc = "loop" /\ ii > 0
    \/ pc = "pool" /\ (out # << >> \/ \E w \in 1..n_procs : busy[w] # 0)
    \/ pc = "returned"

\* C7: validation of a batch is a complete pre-pass: a transform runs only
\* once every item has passed, and a batch with an invalid item fails
\* with no transform run and no result.
C7_ValidationFirst ==
    IsBatch =>
       /\ Transformed => \A i \in 1..Len(arg_in) : ItemValid(arg_in[i])
       /\ pc = "validate" => out = << >>
       /\ pc = "raised" =>
             /\ \E i \in 1..Len(arg_in) : ~ItemValid(arg_in[i])
             /\ out = << >>
             /\ ret.val = << >>

\* the second item is the invalid one
C7_Witness ==
    /\ pc = "raised" /\ IsBatch
    /\ Len(arg_in) = 2
    /\ ItemValid(arg_in[1]) /\ ~ItemValid(arg_in[2])
    /\ out = << >>

\* the error kind of a raised check
ErrorKind ==
    CASE err.check = "integral" -> "InvalidType"
      [] err.check \in {"upper", "lower"} -> "OutOfRange"
      [] err.check = "length" -> "DimensionMismatch"
      [] OTHER -> "InvalidParameter"

\* the call got past validation
Accepted == pc \in {"loop", "pool", "returned"}

\* C8: points_from_distances accepts a batch exactly when every distance
\* is integral and in [0, max_h], both bounds included; an integral
\* distance outside is rejected with OutOfRange, a non-integral one with
\* InvalidType.
C8_DistancesAccepted ==
    op = "points_from_distances" =>
       /\ Accepted => \A i \in 1..Len(arg_in) : IsDistance(arg_in[i])
       /\ (\A i \in 1..Len(arg_in) : IsDistance(arg_in[i])) => pc # "raised"
       /\ pc = "raised" =>
             /\ err.value = arg_in[err.index + 1]
             /\ ~IsDistance(err.value)
             /\ ErrorKind = IF not_integral(err.value) THEN "InvalidType"
                            ELSE "OutOfRange"

\* max_h passed, max_h + 1 was rejected
C8_Witness ==
    /\ pc = "raised" /\ op = "points_from_distances"
    /\ arg_in = << Num(pow2(p * n) - 1), Num(pow2(p * n)) >>
    /\ err.index = 1
    /\ ErrorKind = "OutOfRange"

OutOfRangeComp(x) == \E k \in 1..Len(x) : x[k] < 0 \/ x[k] > Num(pow2(p) - 1)

\* C9: distances_from_points accepts a batch exactly when every point has
\* n components, each integral and in [0, max_x], both bounds included; a
\* point of another length is rejected with DimensionMismatch, a point of
\* length n with a component outside with OutOfRange, any other with
\* InvalidType.
C9_PointsAccepted ==
    op = "distances_from_points" =>
       /\ Accepted => \A i \in 1..Len(arg_in) : IsPoint(arg_in[i])
       /\ (\A i \in 1..Len(arg_in) : IsPoint(arg_in[i])) => pc # "raised"
       /\ pc = "raised" =>
             /\ err.value = arg_in[err.index + 1]
             /\ ~IsPoint(err.value)
             /\ ErrorKind = IF Len(err.value) # n THEN "DimensionMismatch"
                            ELSE IF OutOfRangeComp(err.value) THEN "OutOfRange"
                            ELSE "InvalidType"

\* [max_x, ..., max_x] passed, a point of n + 1 components was rejected
C9_Witness ==
    /\ pc = "raised" /\ op = "distances_from_points"
    /\ Len(arg_in) = 2
    /\ arg_in[1] = [i \in 1..n |-> Num(pow2(p) - 1)]
    /\ Len(arg_in[2]) = n + 1
    /\ err.index = 1
    /\ ErrorKind = "DimensionMismatch"

\* C10: point_from_distance validates its input: it fails with OutOfRange
\* (ValueError) if h < 0 or h > max_h, with InvalidType (TypeError) if h is
\* not integral, and never returns a point for such an h.
C10_SingleValidates ==
    (op = "point_from_distance" /\ ~IsDistance(arg_in)) =>
       /\ pc = "raised"
       /\ not_integral(arg_in) \/ ret.exc = "ValueError"
       /\ (0 <= arg_in /\ arg_in <= Num(pow2(p * n) - 1)) => ret.exc = "TypeError"

\* C11: distance_from_point validates its input: it fails with
\* DimensionMismatch (ValueError) if len(point) != n, with OutOfRange
\* (ValueError) if a component is outside [0, max_x], with InvalidType
\* (TypeError) if a component is not integral, and never returns a distance
\* for such a point.
C11_SingleValidates ==
    (op = "distance_from_point" /\ ~IsPoint(arg_in)) =>
       /\ pc = "raised"
       /\ ret.exc \in {"ValueError", "TypeError"}
       /\ Len(arg_in) # n => ret.exc = "ValueError"
       /\ (Len(arg_in) = n /\ ~OutOfRangeComp(arg_in)) => ret.exc = "TypeError"

\* the call was __init__ and this is the state it left
Constructing == op = "__init__"

\* the parallelism argument of the call is one __init__ takes
ProcsAccepted == ~not_integral(arg_in[3]) /\ int(arg_in[3]) >= -1

\* C12: construction fails when p or n is not a positive integer: an
\* integral value <= 0 is rejected as out of range (ValueError), a value
\* with a fractional part is rejected as not an integer (TypeError), an
\* integral value >= 1 is accepted and stored as the integer int(value);
\* no instance exists with p < 1 or n < 1.
C12_Construction ==
    /\ pc \notin {"new", "no_instance"} => (p >= 1 /\ n >= 1)
    /\ Constructing =>
         LET p_in == arg_in[1]
             n_in == arg_in[2]
             fractional == not_integral(p_in) \/ not_integral(n_in)
         IN /\ fractional => (pc = "no_instance" /\ ret.exc = "TypeError")
            /\ (~fractional /\ (p_in <= 0 \/ n_in <= 0)) =>
                  /\ pc = "no_instance"
                  /\ ~not_integral(arg_in[3]) => ret.exc = "ValueError"
            /\ (~fractional /\ p_in >= Num(1) /\ n_in >= Num(1) /\ ProcsAccepted) =>
                  /\ pc = "idle"
                  /\ Num(p) = p_in /\ Num(n) = n_in

\* __init__ rejected p = 0 as out of range
C12_Witness ==
    /\ Constructing /\ pc = "no_instance"
    /\ arg_in[1] = Num(0) /\ arg_in[2] = Num(1)
    /\ ret.exc = "ValueError" /\ err.check = "p_positive"

\* C13: __init__ accepts n_procs = 0 (stored 0), n_procs = -1 (stored as
\* the positive cpu count) and n_procs = k > 0 (stored k), and rejects
\* every value below -1 and every non-integral value; the stored n_procs
\* is never negative.
C13_Parallelism ==
    /\ n_procs >= 0
    /\ Constructing =>
         LET k == arg_in[3]
             curve_ok == /\ ~not_integral(arg_in[1]) /\ arg_in[1] >= Num(1)
                         /\ ~not_integral(arg_in[2]) /\ arg_in[2] >= Num(1)
         IN /\ (not_integral(k) \/ k < Num(-1)) =>
                  /\ pc = "no_instance"
                  /\ ret.exc \in {"TypeError", "ValueError"}
                  /\ curve_ok => err.check \in {"n_procs_integral", "n_procs_range"}
            /\ (curve_ok /\ k = Num(0)) => (pc = "idle" /\ n_procs = 0)
            /\ (curve_ok /\ k = Num(-1)) => (pc = "idle" /\ n_procs >= 1)
            /\ (curve_ok /\ ~not_integral(k) /\ k >= Num(1)) =>
                  (pc = "idle" /\ Num(n_procs) = k)

\* __init__ took n_procs = -1 and stored a cpu count of 2
C13_Witness ==
    /\ Constructing /\ pc = "idle"
    /\ arg_in[3] = Num(-1) /\ n_procs = 2

\* __init__ returned an instance
Constructed == pc \notin {"new", "no_instance"}

\* C14: an instance is immutable after construction: no call, failing
\* calls included, changes p, n, min_h, max_h, min_x, max_x or n_procs, and
\* max_h = 2^(p*n) - 1, max_x = 2^p - 1, min_h = min_x = 0 in every state
\* of an instance.
C14_Immutable ==
    /\ [](Constructed => /\ max_h = pow2(p * n) - 1
                         /\ max_x = pow2(p) - 1
                         /\ min_h = 0 /\ min_x = 0)
    /\ [][Constructed => UNCHANGED fields]_vars

\* distances_from_points failed validation on a curve with p = 2 and two
\* workers, and the fields are what __init__ stored
C14_Witness ==
    /\ op = "distances_from_points" /\ pc = "raised"
    /\ p = 2 /\ max_x = 3 /\ max_h = pow2(2 * n) - 1 /\ n_procs = 2

\* bit k (0 = most significant) of the width-bit representation of v
bit_be(v, k, width) == (v \div pow2(width - 1 - k)) % 2

\* C15: _hilbert_integer_to_transpose sends bit k (0 = most significant)
\* of the (p*n)-bit representation of h in [0, max_h] to component k mod n,
\* as bit k div n of that p-bit component; for p = 5, n = 3, h = 10590 the
\* transpose is [13, 19, 6].
C15_TransposeBits ==
    (/\ op = "_hilbert_integer_to_transpose"
     /\ 0 <= arg_in /\ arg_in <= max_h) =>
       /\ pc = "returned"
       /\ Len(ret.val) = n
       /\ \A i \in 1..n : 0 <= ret.val[i] /\ ret.val[i] <= max_x
       /\ \A k \in 0..(p * n - 1) :
             bit_be(arg_in, k, p * n) = bit_be(ret.val[(k % n) + 1], k \div n, p)
       /\ (p = 5 /\ n = 3 /\ arg_in = 10590) => ret.val = << 13, 19, 6 >>

\* the known vector was packed
C15_Witness ==
    /\ op = "_hilbert_integer_to_transpose" /\ pc = "returned"
    /\ p = 5 /\ n = 3 /\ arg_in = 10590 /\ ret.val = << 13, 19, 6 >>

\* C16: the transpose methods are exact inverses: unpacking the transpose of
\* an h in [0, max_h] gives h, and packing the distance of a transpose of n
\* components in [0, max_x] gives the transpose.
C16_TransposeInverse ==
    /\ (op = "_hilbert_integer_to_transpose" /\ 0 <= arg_in /\ arg_in <= max_h) =>
          /\ pc = "returned"
          /\ transpose_to_hilbert_integer(p, n, ret.val) = Returned(arg_in)
    /\ (/\ op = "_transpose_to_hilbert_integer"
        /\ \A i \in 1..n : 0 <= arg_in[i] /\ arg_in[i] <= max_x) =>
          /\ pc = "returned"
          /\ hilbert_integer_to_transpose(p, n, ret.val) = Returned(arg_in)

\* the known transpose was unpacked
C16_Witness ==
    /\ op = "_transpose_to_hilbert_integer" /\ pc = "returned"
    /\ p = 5 /\ n = 3 /\ arg_in = << 13, 19, 6 >> /\ ret.val = 10590

\* the coordinates in which two points differ
Differing(x, y) == {i \in 1..Len(x) : x[i] # y[i]}

\* C17: for every distance h in [0, max_h - 1], point_from_distance(h) and
\* point_from_distance(h + 1) differ in exactly one coordinate, and in that
\* coordinate by exactly 1.
C17_Locality ==
    (/\ op = "point_from_distance"
     /\ IsDistance(arg_in) /\ arg_in < Num(max_h)) =>
       /\ pc = "returned"
       /\ LET next == point_from_distance(p, n, arg_in + Num(1))
          IN /\ next.exc = "none"
             /\ Len(next.val) = Len(ret.val)
             /\ Cardinality(Differing(ret.val, next.val)) = 1
             /\ \A i \in Differing(ret.val, next.val) :
                   \/ next.val[i] = ret.val[i] + 1
                   \/ next.val[i] = ret.val[i] - 1

\* point_from_distance(31) returned on the curve p = 2, n = 3, one step
\* along a single axis before the point of 32
C17_Witness ==
    /\ ReturnedFrom("point_from_distance")
    /\ p = 2 /\ n = 3 /\ arg_in = Num(31)
    /\ Cardinality(Differing(ret.val, point_from_distance(p, n, Num(32)).val)) = 1

\* the positions (from 1) of the invalid items of the batch
InvalidItems == {i \in 1..Len(arg_in) : ~ItemValid(arg_in[i])}

\* C18: when a batch call raises, the error names the index and the
\* value of an invalid item of the batch, and that index is the lowest
\* index whose item is invalid.
C18_ErrorIdentifies ==
    (IsBatch /\ pc = "raised") =>
       /\ InvalidItems # {}
       /\ err.index + 1 \in InvalidItems
       /\ \A j \in InvalidItems : err.index + 1 <= j
       /\ err.value = arg_in[err.index + 1]

\* two different invalid items, the first one reported
C18_Witness ==
    /\ IsBatch /\ pc = "raised"
    /\ InvalidItems = {1, 2} /\ arg_in[1] # arg_in[2]
    /\ err.index = 0 /\ err.value = arg_in[1]

\* properties of the item a raised batch call reports
Reported == arg_in[err.index + 1]
SomeAbove(x) == \E k \in 1..Len(x) : x[k] > Num(max_x)
SomeBelow(x) == \E k \in 1..Len(x) : x[k] < Num(min_x)
SomeFractional(x) == \E k \in 1..Len(x) : not_integral(x[k])

\* C19: per item, distances_from_points checks length, then upper bound,
\* then lower bound, then integrality: a wrong-length point is reported as
\* DimensionMismatch even with components out of range, and a point with a
\* component out of range and a non-integral component as OutOfRange;
\* points_from_distances checks integrality before range: a non-integral
\* out-of-range distance is reported as InvalidType.
C19_Precedence ==
    (IsBatch /\ pc = "raised") =>
       /\ op = "distances_from_points" =>
             /\ Len(Reported) # n =>
                   (err.check = "length" /\ ErrorKind = "DimensionMismatch")
             /\ (Len(Reported) = n /\ SomeAbove(Reported)) =>
                   (err.check = "upper" /\ ErrorKind = "OutOfRange")
             /\ (Len(Reported) = n /\ ~SomeAbove(Reported) /\ SomeBelow(Reported)) =>
                   (err.check = "lower" /\ ErrorKind = "OutOfRange")
             /\ err.check = "integral" =>
                   /\ Len(Reported) = n /\ SomeFractional(Reported)
                   /\ ~SomeAbove(Reported) /\ ~SomeBelow(Reported)
             /\ ret.exc = IF ErrorKind = "InvalidType" THEN "TypeError"
                          ELSE "ValueError"
       /\ op = "points_from_distances" =>
             /\ not_integral(Reported) =>
                   (err.check = "integral" /\ ErrorKind = "InvalidType")
             /\ (~not_integral(Reported) /\ Reported > Num(max_h)) =>
                   err.check = "upper"
             /\ (~not_integral(Reported) /\ Reported < Num(min_h)) =>
                   err.check = "lower"
             /\ ret.exc = IF ErrorKind = "InvalidType" THEN "TypeError"
                          ELSE "ValueError"

\* a point whose last component max_x + 1.5 is both out of range and
\* non-integral was reported as OutOfRange
C19_Witness ==
    /\ op = "distances_from_points" /\ pc = "raised"
    /\ Len(Reported) = n /\ Reported[n] = 2 * max_x + 3
    /\ err.check = "upper" /\ ErrorKind = "OutOfRange" /\ ret.exc = "ValueError"

\* the transpose point_from_distance hands to its loops, and the list
\* distance_from_point hands to its loops
DecodeInput == hilbert_integer_to_transpose(p, n, int(arg_in))
EncodeInput == AsInts(arg_in)

\* C20: for every p >= 1 the correction loops end after exactly p - 1
\* outer passes: the undo-excess-work loop of point_from_distance and both
\* q loops of distance_from_point; for p = 1 they make no pass and the
\* transforms are the Gray step alone.
C20_LoopPasses ==
    /\ (op = "point_from_distance" /\ DecodeInput.exc = "none") =>
          /\ pc = "returned"
          /\ decode(p, n, DecodeInput.val).iters = p - 1
          /\ ret.val = decode(p, n, DecodeInput.val).x
          /\ p = 1 => ret.val = gray_decode(DecodeInput.val, n)
    /\ (op = "distance_from_point" /\ Len(arg_in) >= n) =>
          /\ encode(p, n, EncodeInput).iters = p - 1
          /\ \A k \in 1..n :
                gray_encode_t(EncodeInput[k], pow2(p - 1), 0, 0).iters = p - 1
          /\ p = 1 => encode(p, n, EncodeInput).x = gray_encode_loop(EncodeInput, 1, n)

\* the correction loop made two passes on a curve with p = 3
C20_Witness ==
    /\ ReturnedFrom("point_from_distance")
    /\ p = 3 /\ n = 2 /\ arg_in = Num(45)
    /\ decode(p, n, DecodeInput.val).iters = 2

\* the corner [2^p - 1, 0, ..., 0] of the hypercube, and the origin
EndCorner == [i \in 1..n |-> IF i = 1 THEN pow2(p) - 1 ELSE 0]
Origin == [i \in 1..n |-> 0]

\* C21: on every curve point_from_distance maps the distance 0 to the
\* origin [0, ..., 0] and the distance max_h = 2^(p*n) - 1 to the corner
\* [2^p - 1, 0, ..., 0].
C21_Endpoints ==
    op = "point_from_distance" =>
       /\ arg_in = Num(0) => (pc = "returned" /\ ret.val = Origin)
       /\ arg_in = Num(pow2(p * n) - 1) => (pc = "returned" /\ ret.val = EndCorner)

\* the last distance of the curve p = 3, n = 3 gave [7, 0, 0]
C21_Witness ==
    /\ ReturnedFrom("point_from_distance")
    /\ p = 3 /\ n = 3 /\ arg_in = Num(511)
    /\ ret.val = << 7, 0, 0 >>

====
